---- MODULE Spec2Model ----
(***************************************************************************)
(* Model of pkg/surveyext/editor.go: the package-level editor selection    *)
(* done by init() and one call of GhEditor.Prompt / GhEditor.prompt.       *)
(*                                                                         *)
(* Strings that the code treats as bytes (the default, the initial value,  *)
(* the temp file's content, the answer) are sequences of byte values.      *)
(* An optional value is <<>> (absent) or <<v>> (present).                  *)
(* Calls into the operating system, the survey library, shellquote and the *)
(* editor subprocess are nondeterministic in their outcome.                *)
(***************************************************************************)
EXTENDS Integers, Sequences, FiniteSets

VARIABLES
    goos,           \* runtime.GOOS
    env,            \* the process environment: name -> <<>> (unset) or <<value>>
    editor,         \* package variable editor
    e,              \* the GhEditor's fields: Default, AppendDefault, Help, FileName
    config,         \* the survey.PromptConfig: HelpInput
    pc,             \* position of the call
    initialValue,   \* parameter of prompt
    showHelp,       \* ShowHelp of the template data rendered last
    termMode,       \* the terminal's input mode
    savedMode,      \* the mode SetTermMode saved, <<>> before
    cursorVisible,  \* the terminal's cursor
    defers,         \* the deferred calls registered so far, oldest first
    r,              \* the rune read last
    f,              \* the temp file's name, <<>> before TempFile
    fOpen,          \* whether the handle f is open
    file,           \* the temp file on disk: <<>> (none) or <<content>>
    args,           \* the editor's command line
    raw,            \* <<>> or <<the bytes ReadFile returned>>
    text,           \* raw without the BOM header
    ret,            \* the values of the return statement executed
    fileCreated,    \* history: TempFile has created the file
    spawned,        \* history: the editor subprocess has been started
    edited,         \* history: the subprocess changed the temp file
    failure,        \* history: the error a callee of prompt's body returned
    removeErr       \* history: the error the deferred os.Remove returned

vars == <<goos, env, editor, e, config, pc, initialValue, showHelp, termMode,
          savedMode, cursorVisible, defers, r, f, fOpen, file, args, raw, text,
          ret, fileCreated, spawned, edited, failure, removeErr>>

\* what a call of Prompt never assigns
setup == <<goos, env, editor, e, config>>
\* the terminal
term == <<termMode, savedMode, cursorVisible>>
\* the temp file and the subprocess
disk == <<f, fOpen, file, fileCreated, args, spawned, edited>>

----------------------------------------------------------------------------
(* Bytes and texts *)

bom == <<239, 187, 191>>

\* Number of pieces a text of the model is made of.
MaxPieces == 2

Pieces == {bom, <<97>>, <<239>>}

RECURSIVE Concats(_)
Concats(n) ==
    IF n = 0 THEN {<<>>}
    ELSE LET S == Concats(n - 1) IN S \cup {s \o p : s \in S, p \in Pieces}

\* The values of e.Default.
Texts == Concats(MaxPieces)

\* What an editor may leave in the file.
EditorContents == Texts \cup {bom \o t : t \in Texts}

None == <<>>
Some(x) == <<x>>

HasPrefix(s, prefix) ==
    /\ Len(s) >= Len(prefix)
    /\ SubSeq(s, 1, Len(prefix)) = prefix

\* TrimPrefix that takes a repeated prefix off as well
TrimPrefixAll(s, prefix) ==
    IF HasPrefix(s, prefix) /\ HasPrefix(SubSeq(s, Len(prefix) + 1, Len(s)), prefix)
    THEN SubSeq(s, 2 * Len(prefix) + 1, Len(s))
    ELSE IF HasPrefix(s, prefix) THEN SubSeq(s, Len(prefix) + 1, Len(s)) ELSE s

\* bytes.TrimPrefix
TrimPrefix(s, prefix) ==
    IF HasPrefix(s, prefix) THEN SubSeq(s, Len(prefix) + 1, Len(s)) ELSE s

----------------------------------------------------------------------------
(* init(): the editor selection *)

GOOS == {"windows", "linux", "darwin"}

EnvNames == {"GIT_EDITOR", "VISUAL", "EDITOR"}

EnvValue == [GIT_EDITOR |-> "vim", VISUAL |-> "code --wait", EDITOR |-> "vi '"]

\* every variable is unset, set to the empty string or set to its value
Envs == {[n \in EnvNames |-> IF n \in S THEN Some(EnvValue[n]) ELSE v[n]] :
            S \in SUBSET EnvNames, v \in [EnvNames -> {None, Some("")}]}

\* os.Getenv: the value, the empty string when the variable is not set
Getenv(en, name) == IF en[name] = None THEN "" ELSE en[name][1]

\* the value init() leaves in editor
initEditor(os, en) ==
    IF os = "windows" THEN "notepad"
    ELSE IF Getenv(en, "GIT_EDITOR") # "" THEN Getenv(en, "GIT_EDITOR")
    ELSE IF Getenv(en, "VISUAL") # "" THEN Getenv(en, "VISUAL")
    ELSE IF Getenv(en, "EDITOR") # "" THEN Getenv(en, "EDITOR")
    ELSE "nano"

\* the package variables before init() runs
ZeroEditor == [Default |-> <<>>, AppendDefault |-> FALSE, Help |-> "", FileName |-> ""]

\* survey's default configuration: "?" asks for help
DefaultConfig == [HelpInput |-> <<63>>]

NoReturn == [ans |-> <<>>, err |-> "nil"]

InitStart ==
    /\ goos \in GOOS
    /\ env \in Envs
    /\ editor = "nano"
    /\ e = ZeroEditor
    /\ config = DefaultConfig
    /\ pc = "init"
    /\ initialValue = <<>>
    /\ showHelp = FALSE
    /\ termMode = "cooked"
    /\ savedMode = None
    /\ cursorVisible = TRUE
    /\ defers = <<>>
    /\ r = 0
    /\ f = None
    /\ fOpen = FALSE
    /\ file = None
    /\ args = <<>>
    /\ raw = None
    /\ text = <<>>
    /\ ret = NoReturn
    /\ fileCreated = FALSE
    /\ spawned = FALSE
    /\ edited = FALSE
    /\ failure = "nil"
    /\ removeErr = "nil"

init ==
    /\ pc = "init"
    /\ editor' = initEditor(goos, env)
    /\ pc' = "Prompt"
    /\ UNCHANGED <<goos, env, e, config, initialValue, showHelp, term, defers, r,
                   disk, raw, text, ret, failure, removeErr>>

NextInit == init

SpecInit == InitStart /\ [][NextInit]_vars

----------------------------------------------------------------------------
(* One call of Prompt *)

KeyInterrupt == 3
KeyEndTransmission == 4

\* 'e', '\r', '\n', the two control keys, '?' and a key with no meaning
Runes == {101, 13, 10, KeyInterrupt, KeyEndTransmission, 63, 120}

\* the GhEditor values a caller constructs
Editors == [Default : Texts, AppendDefault : BOOLEAN, Help : {"", "help"},
            FileName : {"", "msg*.md"}]

\* the configurations of a caller: help on "?" or on "e"
Configs == {DefaultConfig, [HelpInput |-> <<101>>]}

AllSet == [n \in EnvNames |-> Some(EnvValue[n])]

\* the process starts a call is followed from
PromptStarts ==
    { <<"windows", AllSet>>,
      <<"linux", [n \in EnvNames |-> None]>>,
      <<"linux", [AllSet EXCEPT !["GIT_EDITOR"] = None]>>,
      <<"darwin", [AllSet EXCEPT !["GIT_EDITOR"] = Some(""), !["VISUAL"] = Some("")]>> }

\* the state when Prompt is called: init() has run
Init ==
    /\ \E st \in PromptStarts :
          /\ goos = st[1]
          /\ env = st[2]
          /\ editor = initEditor(st[1], st[2])
    /\ e \in Editors
    /\ config \in Configs
    /\ pc = "Prompt"
    /\ initialValue = <<>>
    /\ showHelp = FALSE
    /\ termMode = "cooked"
    /\ savedMode = None
    /\ cursorVisible = TRUE
    /\ defers = <<>>
    /\ r = 0
    /\ f = None
    /\ fOpen = FALSE
    /\ file = None
    /\ args = <<>>
    /\ raw = None
    /\ text = <<>>
    /\ ret = NoReturn
    /\ fileCreated = FALSE
    /\ spawned = FALSE
    /\ edited = FALSE
    /\ failure = "nil"
    /\ removeErr = "nil"

\* SeedValue that never seeds the default
SeedValueEmpty(ed) == <<>>

\* the initialValue Prompt passes to prompt
SeedValue(ed) ==
    IF ed.Default # <<>> /\ ed.AppendDefault THEN ed.Default ELSE <<>>

Prompt ==
    /\ pc = "Prompt"
    /\ initialValue' = SeedValue(e)
    /\ pc' = "render"
    /\ UNCHANGED <<setup, showHelp, term, defers, r, disk, raw, text, ret,
                   failure, removeErr>>

\* Fail that returns the default with the error
FailWithDefault(err) ==
    /\ failure' = err
    /\ ret' = [ans |-> e.Default, err |-> err]
    /\ pc' = "return"

\* return "", err with the error a callee returned
Fail(err) ==
    /\ failure' = err
    /\ ret' = [ans |-> <<>>, err |-> err]
    /\ pc' = "return"

\* e.Render of the question, ShowHelp false
Render ==
    /\ pc = "render"
    /\ \/ /\ showHelp' = FALSE
          /\ pc' = "setTermMode"
          /\ UNCHANGED <<ret, failure>>
       \/ /\ Fail("ErrRender")
          /\ UNCHANGED showHelp
    /\ UNCHANGED <<setup, initialValue, term, defers, r, disk, raw, text, removeErr>>

\* SetTermMode with RestoreTermMode not deferred
SetTermModeNoRestore ==
    /\ pc = "setTermMode"
    /\ savedMode' = Some(termMode)
    /\ termMode' = "raw"
    /\ cursorVisible' = FALSE
    /\ defers' = defers \o <<"Show">>
    /\ pc' = "readRune"
    /\ UNCHANGED <<setup, initialValue, showHelp, r, disk, raw, text, ret,
                   failure, removeErr>>

\* rr.SetTermMode, defer rr.RestoreTermMode, cursor.Hide, defer cursor.Show
SetTermMode ==
    /\ pc = "setTermMode"
    /\ savedMode' = Some(termMode)
    /\ termMode' = "raw"
    /\ cursorVisible' = FALSE
    /\ defers' = defers \o <<"RestoreTermMode", "Show">>
    /\ pc' = "readRune"
    /\ UNCHANGED <<setup, initialValue, showHelp, r, disk, raw, text, ret,
                   failure, removeErr>>

ReadRune ==
    /\ pc = "readRune"
    /\ \/ /\ r' \in Runes
          /\ pc' = "key"
          /\ UNCHANGED <<ret, failure>>
       \/ /\ r' = 0
          /\ Fail("ErrReadRune")
    /\ UNCHANGED <<setup, initialValue, showHelp, term, defers, disk, raw, text,
                   removeErr>>

\* KeyAction with '\n' left to the keys that are ignored
KeyActionReturnOnly(rune, cfg, ed) ==
    IF rune = 101 THEN "edit"
    ELSE IF rune = 13 THEN "skip"
    ELSE IF rune = KeyInterrupt THEN "interrupt"
    ELSE IF rune = KeyEndTransmission THEN "edit"
    ELSE IF <<rune>> = cfg.HelpInput /\ ed.Help # "" THEN "help"
    ELSE "ignore"

\* KeyAction with both control keys taken as end of transmission
KeyActionControlEdits(rune, cfg, ed) ==
    IF rune = 101 THEN "edit"
    ELSE IF rune = 13 \/ rune = 10 THEN "skip"
    ELSE IF rune = KeyInterrupt \/ rune = KeyEndTransmission THEN "edit"
    ELSE IF <<rune>> = cfg.HelpInput /\ ed.Help # "" THEN "help"
    ELSE "ignore"

\* KeyAction that does not look at the help text
KeyActionHelpAlways(rune, cfg, ed) ==
    IF rune = 101 THEN "edit"
    ELSE IF rune = 13 \/ rune = 10 THEN "skip"
    ELSE IF rune = KeyInterrupt THEN "interrupt"
    ELSE IF rune = KeyEndTransmission THEN "edit"
    ELSE IF <<rune>> = cfg.HelpInput THEN "help"
    ELSE "ignore"

\* what the loop does with a rune
KeyAction(rune, cfg, ed) ==
    IF rune = 101 THEN "edit"
    ELSE IF rune = 13 \/ rune = 10 THEN "skip"
    ELSE IF rune = KeyInterrupt THEN "interrupt"
    ELSE IF rune = KeyEndTransmission THEN "edit"
    ELSE IF <<rune>> = cfg.HelpInput /\ ed.Help # "" THEN "help"
    ELSE "ignore"

\* Key that leaves the loop after the help has been rendered
KeyHelpBreaks ==
    /\ pc = "key"
    /\ LET a == KeyAction(r, config, e) IN
       \/ /\ a = "edit"
          /\ pc' = "tempFile"
          /\ UNCHANGED <<showHelp, ret, failure>>
       \/ /\ a = "skip"
          /\ ret' = [ans |-> <<>>, err |-> "nil"]
          /\ pc' = "return"
          /\ UNCHANGED <<showHelp, failure>>
       \/ /\ a = "interrupt"
          /\ ret' = [ans |-> <<>>, err |-> "InterruptErr"]
          /\ pc' = "return"
          /\ UNCHANGED <<showHelp, failure>>
       \/ /\ a = "help"
          /\ \/ /\ showHelp' = TRUE
                /\ pc' = "tempFile"
                /\ UNCHANGED <<ret, failure>>
             \/ /\ Fail("ErrRender")
                /\ UNCHANGED showHelp
       \/ /\ a = "ignore"
          /\ pc' = "readRune"
          /\ UNCHANGED <<showHelp, ret, failure>>
    /\ UNCHANGED <<setup, initialValue, term, defers, r, disk, raw, text, removeErr>>

Key ==
    /\ pc = "key"
    /\ LET a == KeyAction(r, config, e) IN
       \/ /\ a = "edit"
          /\ pc' = "tempFile"
          /\ UNCHANGED <<showHelp, ret, failure>>
       \/ /\ a = "skip"
          /\ ret' = [ans |-> <<>>, err |-> "nil"]
          /\ pc' = "return"
          /\ UNCHANGED <<showHelp, failure>>
       \/ /\ a = "interrupt"
          /\ ret' = [ans |-> <<>>, err |-> "InterruptErr"]
          /\ pc' = "return"
          /\ UNCHANGED <<showHelp, failure>>
       \/ /\ a = "help"
          /\ \/ /\ showHelp' = TRUE
                /\ pc' = "readRune"
                /\ UNCHANGED <<ret, failure>>
             \/ /\ Fail("ErrRender")
                /\ UNCHANGED showHelp
       \/ /\ a = "ignore"
          /\ pc' = "readRune"
          /\ UNCHANGED <<showHelp, ret, failure>>
    /\ UNCHANGED <<setup, initialValue, term, defers, r, disk, raw, text, removeErr>>

\* the pattern of the temp file's name
Pattern(ed) == IF ed.FileName = "" THEN "survey*.txt" ELSE ed.FileName

\* the name ioutil.TempFile gives a file in the default directory: the
\* pattern with a random string in the place of its last "*"
TempName(pattern) ==
    CASE pattern = "survey*.txt" -> "TempDir/survey123.txt"
      [] pattern = "msg*.md" -> "TempDir/msg123.md"

\* TempFile with os.Remove not deferred
TempFileNoRemove ==
    /\ pc = "tempFile"
    /\ \/ /\ f' = Some(TempName(Pattern(e)))
          /\ fOpen' = TRUE
          /\ file' = Some(<<>>)
          /\ fileCreated' = TRUE
          /\ pc' = "writeBom"
          /\ UNCHANGED <<ret, failure, defers>>
       \/ /\ Fail("ErrTempFile")
          /\ UNCHANGED <<f, fOpen, file, fileCreated, defers>>
    /\ UNCHANGED <<setup, initialValue, showHelp, term, r, args, spawned, edited,
                   raw, text, removeErr>>

\* ioutil.TempFile("", pattern) and defer os.Remove(f.Name())
TempFile ==
    /\ pc = "tempFile"
    /\ \/ /\ f' = Some(TempName(Pattern(e)))
          /\ fOpen' = TRUE
          /\ file' = Some(<<>>)
          /\ fileCreated' = TRUE
          /\ defers' = Append(defers, "Remove")
          /\ pc' = "writeBom"
          /\ UNCHANGED <<ret, failure>>
       \/ /\ Fail("ErrTempFile")
          /\ UNCHANGED <<f, fOpen, file, fileCreated, defers>>
    /\ UNCHANGED <<setup, initialValue, showHelp, term, r, args, spawned, edited,
                   raw, text, removeErr>>

\* the file after a write of data: all of it, or less and an error
Written(data, ok) ==
    IF ok THEN {Some(file[1] \o data)}
    ELSE {Some(file[1] \o SubSeq(data, 1, n)) : n \in 0 .. (Len(data) - 1)}

\* WriteBom that writes the header only in front of an empty initial value
WriteBomWhenEmpty ==
    /\ pc = "writeBom"
    /\ \/ /\ file' \in Written(IF initialValue = <<>> THEN bom ELSE <<>>, TRUE)
          /\ pc' = "writeString"
          /\ UNCHANGED <<ret, failure>>
       \/ /\ file' \in Written(bom, FALSE)
          /\ Fail("ErrWrite")
    /\ UNCHANGED <<setup, initialValue, showHelp, term, defers, r, f, fOpen,
                   fileCreated, args, spawned, edited, raw, text, removeErr>>

\* f.Write(bom)
WriteBom ==
    /\ pc = "writeBom"
    /\ \/ /\ file' \in Written(bom, TRUE)
          /\ pc' = "writeString"
          /\ UNCHANGED <<ret, failure>>
       \/ /\ file' \in Written(bom, FALSE)
          /\ Fail("ErrWrite")
    /\ UNCHANGED <<setup, initialValue, showHelp, term, defers, r, f, fOpen,
                   fileCreated, args, spawned, edited, raw, text, removeErr>>

\* f.WriteString(initialValue)
WriteString ==
    /\ pc = "writeString"
    /\ \/ /\ file' \in Written(initialValue, TRUE)
          /\ pc' = "close"
          /\ UNCHANGED <<ret, failure>>
       \/ /\ file' \in Written(initialValue, FALSE) \cup {file}
          /\ Fail("ErrWrite")
    /\ UNCHANGED <<setup, initialValue, showHelp, term, defers, r, f, fOpen,
                   fileCreated, args, spawned, edited, raw, text, removeErr>>

\* Close whose error is not checked
CloseUnchecked ==
    /\ pc = "close"
    /\ fOpen' = FALSE
    /\ pc' = "split"
    /\ \/ UNCHANGED failure
       \/ failure' = "ErrClose"
    /\ UNCHANGED <<setup, initialValue, showHelp, term, defers, r, f, file,
                   fileCreated, args, spawned, edited, raw, text, ret, removeErr>>

\* f.Close()
Close ==
    /\ pc = "close"
    /\ fOpen' = FALSE
    /\ \/ /\ pc' = "split"
          /\ UNCHANGED <<ret, failure>>
       \/ Fail("ErrClose")
    /\ UNCHANGED <<setup, initialValue, showHelp, term, defers, r, f, file,
                   fileCreated, args, spawned, edited, raw, text, removeErr>>

\* shellquote.Split of the editor values of the model: <<>> is an error
Split(cmd) ==
    CASE cmd = "nano" -> Some(<<"nano">>)
      [] cmd = "notepad" -> Some(<<"notepad">>)
      [] cmd = "vim" -> Some(<<"vim">>)
      [] cmd = "code --wait" -> Some(<<"code", "--wait">>)
      [] cmd = "vi '" -> None

\* SplitEditor that puts the file's name in front of the editor's own arguments
SplitEditorPathFirst ==
    /\ pc = "split"
    /\ IF Split(editor) = None
       THEN /\ Fail("ErrSplit")
            /\ UNCHANGED args
       ELSE /\ args' = <<Head(Split(editor)[1]), f[1]>> \o Tail(Split(editor)[1])
            /\ pc' = "show"
            /\ UNCHANGED <<ret, failure>>
    /\ UNCHANGED <<setup, initialValue, showHelp, term, defers, r, f, fOpen, file,
                   fileCreated, spawned, edited, raw, text, removeErr>>

\* args, err := shellquote.Split(editor); args = append(args, f.Name())
SplitEditor ==
    /\ pc = "split"
    /\ IF Split(editor) = None
       THEN /\ Fail("ErrSplit")
            /\ UNCHANGED args
       ELSE /\ args' = Append(Split(editor)[1], f[1])
            /\ pc' = "show"
            /\ UNCHANGED <<ret, failure>>
    /\ UNCHANGED <<setup, initialValue, showHelp, term, defers, r, f, fOpen, file,
                   fileCreated, spawned, edited, raw, text, removeErr>>

\* Show that also gives the terminal its mode back for the editor
ShowRestoring ==
    /\ pc = "show"
    /\ cursorVisible' = TRUE
    /\ termMode' = savedMode[1]
    /\ pc' = "run"
    /\ UNCHANGED <<setup, initialValue, showHelp, savedMode, defers, r,
                   disk, raw, text, ret, failure, removeErr>>

\* exec.Command and cursor.Show()
Show ==
    /\ pc = "show"
    /\ cursorVisible' = TRUE
    /\ pc' = "run"
    /\ UNCHANGED <<setup, initialValue, showHelp, termMode, savedMode, defers, r,
                   disk, raw, text, ret, failure, removeErr>>

\* cmd.Run(): the subprocess does not start, or it runs, leaves the file in
\* any state and exits with status zero or not
Run ==
    /\ pc = "run"
    /\ \/ /\ Fail("ErrStart")
          /\ UNCHANGED <<file, spawned, edited>>
       \/ /\ spawned' = TRUE
          /\ file' \in {None, file} \cup {Some(c) : c \in EditorContents}
          /\ edited' = (file' # file)
          /\ \/ /\ pc' = "readFile"
                /\ UNCHANGED <<ret, failure>>
             \/ Fail("ErrExit")
    /\ UNCHANGED <<setup, initialValue, showHelp, term, defers, r, f, fOpen,
                   fileCreated, args, raw, text, removeErr>>

\* ioutil.ReadFile(f.Name())
ReadFile ==
    /\ pc = "readFile"
    /\ \/ /\ file # None
          /\ raw' = file
          /\ pc' = "strip"
          /\ UNCHANGED <<ret, failure>>
       \/ /\ Fail("ErrReadFile")
          /\ UNCHANGED raw
    /\ UNCHANGED <<setup, initialValue, showHelp, term, defers, r, disk, text,
                   removeErr>>

\* Answer without the default
AnswerText(txt, ed) == txt

\* Answer that does not look at AppendDefault
AnswerDefaultOnEmpty(txt, ed) ==
    IF Len(txt) = 0 THEN ed.Default ELSE txt

\* the answer for a text read back
Answer(txt, ed) ==
    IF Len(txt) = 0 /\ ~ed.AppendDefault THEN ed.Default ELSE txt

\* strip the BOM header, check the length, return
Strip ==
    /\ pc = "strip"
    /\ text' = TrimPrefix(raw[1], bom)
    /\ ret' = [ans |-> Answer(text', e), err |-> "nil"]
    /\ pc' = "return"
    /\ UNCHANGED <<setup, initialValue, showHelp, term, defers, r, disk, raw,
                   failure, removeErr>>

Deferred(d) == \E i \in DOMAIN defers : defers[i] = d

\* the deferred calls run, last registered first, and the call returns:
\* os.Remove(f.Name()), cursor.Show(), rr.RestoreTermMode()
Return ==
    /\ pc = "return"
    /\ IF Deferred("Remove")
       THEN \/ /\ file # None
               /\ file' = None
               /\ removeErr' = "nil"
            \/ /\ removeErr' = "ErrRemove"
               /\ UNCHANGED file
       ELSE UNCHANGED <<file, removeErr>>
    /\ cursorVisible' = IF Deferred("Show") THEN TRUE ELSE cursorVisible
    /\ termMode' = IF Deferred("RestoreTermMode") THEN savedMode[1] ELSE termMode
    /\ pc' = "done"
    /\ UNCHANGED <<setup, initialValue, showHelp, savedMode, defers, r, f, fOpen,
                   fileCreated, args, spawned, edited, raw, text, ret, failure>>

Next ==
    \/ Prompt
    \/ Render
    \/ SetTermMode
    \/ ReadRune
    \/ Key
    \/ TempFile
    \/ WriteBom
    \/ WriteString
    \/ Close
    \/ SplitEditor
    \/ Show
    \/ Run
    \/ ReadFile
    \/ Strip
    \/ Return

Spec == Init /\ [][Next]_vars

----------------------------------------------------------------------------
(* Properties *)

Returned == pc = "done"

\* c without one leading byte-order-mark
SansBom(c) ==
    IF Len(c) >= 3 /\ c[1] = 239 /\ c[2] = 187 /\ c[3] = 191
    THEN SubSeq(c, 4, Len(c))
    ELSE c

IsSet(name) == env[name] # None /\ env[name] # Some("")

C2_Precedence ==
    pc = "Prompt" =>
        /\ (IsSet("GIT_EDITOR") /\ IsSet("VISUAL") /\ IsSet("EDITOR"))
              => editor = env["GIT_EDITOR"][1]
        /\ (~IsSet("GIT_EDITOR") /\ IsSet("VISUAL") /\ IsSet("EDITOR"))
              => editor = env["VISUAL"][1]
        /\ (~IsSet("GIT_EDITOR") /\ ~IsSet("VISUAL") /\ ~IsSet("EDITOR"))
              => editor = (IF goos = "windows" THEN "notepad" ELSE "nano")

\* C3 as stated: the error a returned call gives is the error of the step
\* that failed, and a call in which removing the temp file failed does not
\* give a nil error.
C3_EveryFailureReturned ==
    Returned =>
        /\ failure # "nil" => ret.err = failure
        /\ removeErr # "nil" => ret.err # "nil"

\* C3, amended: the error a returned call gives is the error of the step of
\* the body that failed, unmodified; with no such failure it is nil or
\* InterruptErr; the error of removing the temp file is never the call's error.
C3_BodyFailureReturned ==
    Returned =>
        /\ failure # "nil" => ret.err = failure
        /\ failure = "nil" => ret.err \in {"nil", "InterruptErr"}
        /\ ret.err # "ErrRemove"

C3_Witness ==
    /\ Returned
    /\ failure = "ErrReadFile"
    /\ ret.err = "ErrReadFile"
    /\ removeErr = "ErrRemove"

\* C4 as stated: when the editor exited with success and non-empty content C
\* was read back, the answer is C without its leading byte-order-mark.
C4_AnswerIsContent ==
    (Returned /\ raw # None /\ raw[1] # <<>>) => ret.ans = SansBom(raw[1])

\* C4, amended: when the editor exited with success and non-empty content C
\* was read back, the error is nil and the answer is C without one leading
\* byte-order-mark, except that for C the byte-order-mark alone and
\* append-default false the answer is the default.
C4_AnswerIsContentOrDefault ==
    (Returned /\ raw # None /\ raw[1] # <<>>) =>
        /\ ret.err = "nil"
        /\ ret.ans = IF raw[1] = <<239, 187, 191>> /\ ~e.AppendDefault
                     THEN e.Default
                     ELSE SansBom(raw[1])

C4_Witness ==
    /\ Returned
    /\ raw = Some(<<239, 187, 191, 239, 187, 191, 97>>)
    /\ ret.ans = <<239, 187, 191, 97>>

\* C5: a carriage return or a newline read in the loop ends the call with
\* the empty answer and a nil error, whatever the default and the initial
\* value, and the call has created no temp file and started no subprocess.
C5_EnterSkips ==
    /\ []((pc \in {"key", "return", "done"} /\ r \in {13, 10}) =>
            (~fileCreated /\ ~spawned))
    /\ [][(pc = "key" /\ r \in {13, 10}) =>
            (pc' = "return" /\ ret' = [ans |-> <<>>, err |-> "nil"])]_vars
    /\ [][pc = "return" => (pc' = "done" /\ ret' = ret /\ r' = r)]_vars

C5_Witness ==
    /\ Returned
    /\ r = 10
    /\ e.Default # <<>>
    /\ e.AppendDefault
    /\ ret = [ans |-> <<>>, err |-> "nil"]
    /\ ~fileCreated
    /\ ~spawned

\* C6: the interrupt key read in the loop, after any keys before it, ends
\* the call with InterruptErr, and the call has created no temp file and
\* started no subprocess.
C6_InterruptReturnsInterruptErr ==
    /\ []((pc \in {"key", "return", "done"} /\ r = 3) =>
            (~fileCreated /\ ~spawned))
    /\ [][(pc = "key" /\ r = 3) =>
            (pc' = "return" /\ ret'.err = "InterruptErr")]_vars
    /\ []((Returned /\ r = 3) => ret.err = "InterruptErr")

C6_Witness ==
    /\ Returned
    /\ r = 3
    /\ showHelp
    /\ ret.err = "InterruptErr"
    /\ ~fileCreated
    /\ ~spawned

\* C7: when the editor exited with success, the content read back is empty
\* or the byte-order-mark alone, and append-default is false, the answer is
\* the default and the error is nil.
C7_EmptyGivesDefault ==
    (Returned /\ raw \in {Some(<<>>), Some(<<239, 187, 191>>)} /\ ~e.AppendDefault)
        => ret = [ans |-> e.Default, err |-> "nil"]

C7_Witness ==
    /\ Returned
    /\ raw = Some(<<239, 187, 191>>)
    /\ ~e.AppendDefault
    /\ e.Default = <<97>>
    /\ ret.ans = <<97>>

\* C8: when the editor exited with success, the content read back is empty
\* or the byte-order-mark alone, and append-default is true, the answer is
\* the empty string and the error is nil, whatever the default.
C8_EmptyStaysEmpty ==
    (Returned /\ raw \in {Some(<<>>), Some(<<239, 187, 191>>)} /\ e.AppendDefault)
        => ret = [ans |-> <<>>, err |-> "nil"]

C8_Witness ==
    /\ Returned
    /\ raw = Some(<<>>)
    /\ e.AppendDefault
    /\ e.Default = <<97>>
    /\ initialValue = <<97>>
    /\ ret.ans = <<>>

\* C9: when the file that was written is read back as the subprocess found
\* it, the text left after stripping the byte-order-mark is the initial value.
C9_RoundTrip ==
    (pc \in {"return", "done"} /\ raw # None /\ ~edited) => text = initialValue

C9_Witness ==
    /\ Returned
    /\ raw # None
    /\ ~edited
    /\ initialValue = <<239, 187, 191, 97>>
    /\ text = initialValue

\* C10: a call that has returned has left the terminal in the mode it found
\* it in and the cursor visible.
C10_TerminalRestored ==
    Returned => (termMode = "cooked" /\ cursorVisible)

C10_Witness ==
    /\ Returned
    /\ savedMode = Some("cooked")
    /\ failure = "ErrReadRune"
    /\ termMode = "cooked"
    /\ cursorVisible

\* everything but pc and showHelp
besidesHelp == <<setup, initialValue, term, defers, r, disk, raw, text, ret,
                 failure, removeErr>>

\* C11 as stated: with a non-empty help text, the help key read in the loop,
\* whatever key is configured, renders the help and the call goes on
\* reading, or the rendering fails and the call returns its error.
C11_HelpKeyRenders ==
    [][(pc = "key" /\ <<r>> = config.HelpInput /\ e.Help # "") =>
          \/ /\ pc' = "readRune"
             /\ showHelp'
             /\ UNCHANGED besidesHelp
          \/ /\ pc' = "return"
             /\ ret' = [ans |-> <<>>, err |-> "ErrRender"]]_vars

\* C11, amended: the same for every configured help key that is not 'e',
\* carriage return, newline, the interrupt key or the end-of-transmission key.
C11_OtherHelpKeyRenders ==
    [][(/\ pc = "key"
        /\ <<r>> = config.HelpInput
        /\ e.Help # ""
        /\ r \notin {101, 13, 10, 3, 4}) =>
          \/ /\ pc' = "readRune"
             /\ showHelp'
             /\ UNCHANGED besidesHelp
          \/ /\ pc' = "return"
             /\ ret' = [ans |-> <<>>, err |-> "ErrRender"]]_vars

C11_Witness ==
    /\ pc = "readRune"
    /\ r = 63
    /\ config.HelpInput = <<63>>
    /\ e.Help = "help"
    /\ showHelp

\* a rune the loop has no branch for
Ignored ==
    /\ r \notin {101, 13, 10, 3, 4}
    /\ ~(<<r>> = config.HelpInput /\ e.Help # "")

\* C12: the loop is left only to edit, on 'e' or the end-of-transmission key
\* and with the same state for both, or to return, on carriage return or
\* newline, on the interrupt key, on a read error or on a failed rendering of
\* the help; on any other key, the help key without a help text included,
\* nothing changes and the next rune is read.
C12_LoopExits ==
    /\ [][(pc = "key" /\ Ignored) =>
            (pc' = "readRune" /\ UNCHANGED <<showHelp, besidesHelp>>)]_vars
    /\ [][(pc = "key" /\ r \in {101, 4}) =>
            (pc' = "tempFile" /\ UNCHANGED <<showHelp, besidesHelp>>)]_vars
    /\ [][(pc \in {"readRune", "key"} /\ pc' \notin {"readRune", "key"}) =>
            \/ pc = "key" /\ r \in {101, 4} /\ pc' = "tempFile"
            \/ /\ pc = "key" /\ r \in {13, 10} /\ pc' = "return"
               /\ ret' = [ans |-> <<>>, err |-> "nil"]
            \/ /\ pc = "key" /\ r = 3 /\ pc' = "return"
               /\ ret'.err = "InterruptErr"
            \/ /\ pc = "readRune" /\ pc' = "return"
               /\ ret'.err = "ErrReadRune"
            \/ /\ pc = "key" /\ <<r>> = config.HelpInput /\ e.Help # ""
               /\ pc' = "return" /\ ret'.err = "ErrRender"]_vars

C12_Witness ==
    /\ pc = "readRune"
    /\ r = 63
    /\ config.HelpInput = <<63>>
    /\ e.Help = ""
    /\ ~showHelp
    /\ ~fileCreated
    /\ ~spawned

\* the seed of the file for the GhEditor of the call
Seed == IF e.Default # <<>> /\ e.AppendDefault THEN e.Default ELSE <<>>

\* C13: when the editor command is run the temp file holds the bytes EF BB BF
\* followed by the seed, which is the default when the default is non-empty
\* and append-default is true and empty otherwise, its handle is closed, the
\* cursor is visible and the file's name is the last argument of the command;
\* the subprocess starts only then, and the file is read back only after the
\* subprocess has started and no step has failed.
C13_EditOrder ==
    /\ [](pc = "run" =>
            /\ f # None
            /\ file = Some(<<239, 187, 191>> \o Seed)
            /\ ~fOpen
            /\ cursorVisible
            /\ Len(args) >= 2
            /\ args[Len(args)] = f[1]
            /\ ~spawned)
    /\ [][(~spawned /\ spawned') => pc = "run"]_vars
    /\ [][raw' # raw => (pc = "readFile" /\ spawned /\ failure = "nil")]_vars
    /\ [](pc = "readFile" => (spawned /\ failure = "nil"))

C13_Witness ==
    /\ pc = "strip"
    /\ spawned
    /\ e.Default = <<97>>
    /\ e.AppendDefault
    /\ Len(args) = 3
    /\ args[3] = f[1]
    /\ raw # None

\* C14: when the editor exited with success and the file is read back as it
\* was written, the answer is the default and the error is nil, whatever the
\* default and append-default are.
C14_UntouchedGivesDefault ==
    (Returned /\ raw # None /\ ~edited) => ret = [ans |-> e.Default, err |-> "nil"]

C14_Witness ==
    /\ Returned
    /\ raw # None
    /\ ~edited
    /\ e.AppendDefault
    /\ e.Default = <<239, 187, 191, 97>>
    /\ ret.ans = <<239, 187, 191, 97>>

\* C15: a return with a non-nil error carries the empty answer, also when
\* the subprocess failed after writing to the file.
C15_ErrorMeansEmptyAnswer ==
    (pc \in {"return", "done"} /\ ret.err # "nil") => ret.ans = <<>>

C15_Witness ==
    /\ Returned
    /\ ret.err = "ErrExit"
    /\ edited
    /\ file = Some(<<97>>)
    /\ e.Default = <<239>>
    /\ ret.ans = <<>>

\* C16: from SetTermMode until the return the terminal is in raw mode, while
\* the subprocess runs and the file is read included; the mode changes back
\* only in the return; a call whose first rendering fails returns with no
\* mode saved, nothing deferred, the mode and the cursor as they were.
C16_RawUntilReturn ==
    /\ []((savedMode # None /\ pc # "done") => termMode = "raw")
    /\ [](pc \in {"run", "readFile", "strip"} => termMode = "raw")
    /\ [][(termMode = "raw" /\ termMode' # "raw") =>
            (pc = "return" /\ pc' = "done")]_vars
    /\ [][(pc = "render" /\ pc' = "return") =>
            (savedMode' = None /\ defers' = <<>>)]_vars
    /\ [](savedMode = None =>
            (termMode = "cooked" /\ cursorVisible /\ defers = <<>>))

C16_Witness ==
    /\ pc = "strip"
    /\ spawned
    /\ termMode = "raw"
    /\ cursorVisible
    /\ savedMode = Some("cooked")

====
